---- MODULE Spec2Model ----
(***************************************************************************)
(* The Intcode computer of src/day17/intcode.py (class IntcodeComputer)    *)
(* as a state machine.  A machine is the record of the object's fields;    *)
(* Python lists (the output log, the list handed to run/resume) live in a  *)
(* heap of list objects, because run() keeps a reference to the caller's   *)
(* list and input() pops from that very object.  The numpy array `code`    *)
(* is a function on 0..Cap-1 with numpy's indexing rules: a scalar index   *)
(* in -Cap..-1 wraps around, any other index outside 0..Cap-1 raises       *)
(* IndexError, and a slice is clipped to the array instead of failing.     *)
(* Cells are int64; with the programs and the step bound used here every   *)
(* value stays far below 2^63, so wrap-around is not modelled.             *)
(***************************************************************************)
EXTENDS Integers, Sequences, FiniteSets, TLC

\* code_size of the constructor: the fixed capacity of the memory.
Cap == 10
\* Most loop iterations (executed or failed instructions) of one machine.
MaxSteps == 7

Machines == {1, 2}

\* The list objects: each machine's output log and the list of its last call.
Out(m) == <<"output", m>>
Arg(m) == <<"arg", m>>
ListIds == {Out(m) : m \in Machines} \cup {Arg(m) : m \in Machines}

VARIABLES ic, heap, pc, obs
vars == <<ic, heap, pc, obs>>

-----------------------------------------------------------------------------
(* numpy indexing of self.code *)

InBounds(i) == i >= -Cap /\ i < Cap
Wrap(i) == IF i < 0 THEN i + Cap ELSE i
Clip(i) == IF i < 0 THEN (IF i + Cap < 0 THEN 0 ELSE i + Cap)
                    ELSE (IF i > Cap THEN Cap ELSE i)
GetSlice(code, start, stop) ==
    LET a == Clip(start)
        b == Clip(stop)
    IN  [k \in 1..(b - a) |-> code[a + k - 1]]

ZeroCode == [a \in 0..(Cap - 1) |-> 0]

-----------------------------------------------------------------------------
(* results of a method: the object and heap it leaves, the exception it    *)
(* raised ("none" when it returned), its return value, and the raw scalar  *)
(* indices into self.code it used.                                         *)

Done(self, h, ret, acc) ==
    [self |-> self, heap |-> h, raised |-> "none", ret |-> ret, acc |-> acc]
\* An exception as it would be if raising it also stopped the machine.
Raise_and_halt(self, h, kind) ==
    [self |-> [self EXCEPT !.continue_flag = FALSE], heap |-> h, raised |-> kind,
     ret |-> 0, acc |-> {}]
Raise(self, h, kind) ==
    [self |-> self, heap |-> h, raised |-> kind, ret |-> 0, acc |-> {}]

-----------------------------------------------------------------------------
(* decoding *)

RECURSIVE ReversedDigits(_)
ReversedDigits(n) ==
    IF n = 0 THEN <<>> ELSE <<n % 10>> \o ReversedDigits(n \div 10)

\* str(full_opcode)[:-2][::-1] digit by digit, int(str(full_opcode)[-2:]).
\* A negative cell of two or more digits puts the sign among the mode
\* characters, and int("-") raises ValueError.
parse_full_opcode(full_opcode) ==
    IF full_opcode >= 0
    THEN [raised |-> "none", parameters |-> ReversedDigits(full_opcode \div 100),
          opcode |-> full_opcode % 100]
    ELSE IF full_opcode > -10
    THEN [raised |-> "none", parameters |-> <<>>, opcode |-> full_opcode]
    ELSE [raised |-> "ValueError", parameters |-> <<>>, opcode |-> 0]

check_modes_length(modes, num_args) ==
    IF Len(modes) < num_args
    THEN modes \o [k \in 1..(num_args - Len(modes)) |-> 0]
    ELSE modes

\* The address a pointer parameter dereferences: the literal in mode 0,
\* relative_base + literal in mode 2.
PointerOf(self, mode, arg) ==
    IF mode = 0 THEN arg ELSE self.relative_base + arg

follow_pointers(self, modes0, num_args, has_output) ==
    LET modes == check_modes_length(modes0, num_args)
        args == GetSlice(self.code, self.pointer + 1, self.pointer + 1 + num_args)
        n == Len(args)
        IsPtr(mode) == mode = 0 \/ mode = 2
        \* for i in range(len(args) - 1)
        looped == {i \in 1..(n - 1) : IsPtr(modes[i])}
        bad == {i \in looped : ~InBounds(PointerOf(self, modes[i], args[i]))}
        last_mode == modes[Len(modes)]
        operands == {self.pointer + k : k \in 1..n}
    IN  IF bad # {} \/ n = 0
        THEN [raised |-> "IndexError", args |-> <<>>, acc |-> {}]
        ELSE LET front == [i \in 1..(n - 1) |->
                             IF i \in looped
                             THEN self.code[Wrap(PointerOf(self, modes[i], args[i]))]
                             ELSE args[i]]
                 frontacc == {PointerOf(self, modes[i], args[i]) : i \in looped}
                 last_arg == args[n]
             IN  IF has_output
                 THEN [raised |-> "none",
                       args |-> Append(front, IF last_mode = 2
                                              THEN last_arg + self.relative_base
                                              ELSE last_arg),
                       acc |-> operands \cup frontacc]
                 ELSE IF ~IsPtr(last_mode)
                 THEN [raised |-> "none", args |-> Append(front, last_arg),
                       acc |-> operands \cup frontacc]
                 ELSE IF ~InBounds(PointerOf(self, last_mode, last_arg))
                 THEN [raised |-> "IndexError", args |-> <<>>, acc |-> {}]
                 ELSE [raised |-> "none",
                       args |-> Append(front,
                                  self.code[Wrap(PointerOf(self, last_mode, last_arg))]),
                       acc |-> operands \cup frontacc
                               \cup {PointerOf(self, last_mode, last_arg)}]

\* The mode follow_pointers applies to the k-th of num_args parameters:
\* modes[k] inside the loop over all but the last argument, and modes[-1],
\* the last mode the padded list holds, for the last one.
applied_mode(full_opcode, num_args, k) ==
    IF k < num_args
    THEN check_modes_length(parse_full_opcode(full_opcode).parameters, num_args)[k]
    ELSE check_modes_length(parse_full_opcode(full_opcode).parameters, num_args)[
             Len(check_modes_length(parse_full_opcode(full_opcode).parameters, num_args))]

-----------------------------------------------------------------------------
(* opcode functions *)

\* Each opcode function is split in two: the call of follow_pointers, and
\* (in the definition named ..._args) what it does with the resolved args.

\* The value an opcode function stores: arg1 + arg2, arg1 * arg2,
\* 1 if (arg1 < arg2) else 0, 1 if (arg1 == arg2) else 0.
stored_value(opcode, arg1, arg2) ==
    CASE opcode = 1 -> arg1 + arg2
      [] opcode = 2 -> arg1 * arg2
      [] opcode = 7 -> IF arg1 < arg2 THEN 1 ELSE 0
      [] OTHER -> IF arg1 = arg2 THEN 1 ELSE 0

\* arg1, arg2, output_index = args; self.code[output_index] = value; return 4
store_args(self, h, fp, opcode) ==
    IF fp.raised # "none" THEN Raise(self, h, fp.raised)
    ELSE IF Len(fp.args) # 3 THEN Raise(self, h, "ValueError")
    ELSE IF ~InBounds(fp.args[3]) THEN Raise(self, h, "IndexError")
    ELSE Done([self EXCEPT !.code[Wrap(fp.args[3])] =
                             stored_value(opcode, fp.args[1], fp.args[2])],
              h, 4, fp.acc \cup {fp.args[3]})

\* add as it would be if an index past the end were clamped to the last cell.
add_clamped(self, h, modes) ==
    store_args(self, h,
               [follow_pointers(self, modes, 3, TRUE) EXCEPT
                  !.args = IF Len(@) = 3 /\ @[3] >= Cap THEN [@ EXCEPT ![3] = Cap - 1] ELSE @],
               1)

add(self, h, modes) ==
    store_args(self, h, follow_pointers(self, modes, 3, TRUE), 1)

multiply(self, h, modes) ==
    store_args(self, h, follow_pointers(self, modes, 3, TRUE), 2)

less_than(self, h, modes) ==
    store_args(self, h, follow_pointers(self, modes, 3, TRUE), 7)

equals(self, h, modes) ==
    store_args(self, h, follow_pointers(self, modes, 3, TRUE), 8)

\* input as it would be if a missing value were read as zero.
input_args_zero_default(self, h, fp) ==
    IF fp.raised # "none" THEN Raise(self, h, fp.raised)
    ELSE IF ~InBounds(fp.args[1]) THEN Raise(self, h, "IndexError")
    ELSE Done([self EXCEPT !.code[Wrap(fp.args[1])] =
                             IF h[self.input] = <<>> THEN 0 ELSE Head(h[self.input])],
              [h EXCEPT ![self.input] = IF @ = <<>> THEN @ ELSE Tail(@)],
              2, fp.acc \cup {fp.args[1]})

\* self.code[arg1] = self.input.pop(0): the right-hand side is evaluated
\* first, so the value is popped before the index is checked.
input_args(self, h, fp) ==
    IF fp.raised # "none" THEN Raise(self, h, fp.raised)
    ELSE IF h[self.input] = <<>> THEN Raise(self, h, "IndexError")
    ELSE LET popped == [h EXCEPT ![self.input] = Tail(@)]
         IN  IF ~InBounds(fp.args[1]) THEN Raise(self, popped, "IndexError")
             ELSE Done([self EXCEPT !.code[Wrap(fp.args[1])] = Head(h[self.input])],
                       popped, 2, fp.acc \cup {fp.args[1]})

input(self, h, modes) ==
    input_args(self, h, follow_pointers(self, modes, 1, TRUE))

\* output as it would be if a pausing output moved the pointer on by 4.
output_args_skipping(self, h, fp) ==
    IF fp.raised # "none" THEN Raise(self, h, fp.raised)
    ELSE Done([self EXCEPT !.unpaused_flag = IF self.allow_pausing THEN FALSE ELSE @],
              [h EXCEPT ![self.output] = Append(@, fp.args[1])],
              IF self.allow_pausing THEN 4 ELSE 2, fp.acc)

output_args(self, h, fp) ==
    IF fp.raised # "none" THEN Raise(self, h, fp.raised)
    ELSE Done([self EXCEPT !.unpaused_flag = IF self.allow_pausing THEN FALSE ELSE @],
              [h EXCEPT ![self.output] = Append(@, fp.args[1])], 2, fp.acc)

output(self, h, modes) ==
    output_args(self, h, follow_pointers(self, modes, 1, FALSE))

\* jump_if_true as it would be if a taken jump returned the width 3 as well.
jump_if_true_args_advancing(self, h, fp) ==
    IF fp.raised # "none" THEN Raise(self, h, fp.raised)
    ELSE IF Len(fp.args) # 2 THEN Raise(self, h, "ValueError")
    ELSE IF fp.args[1] # 0
    THEN Done([self EXCEPT !.pointer = fp.args[2]], h, 3, fp.acc)
    ELSE Done(self, h, 3, fp.acc)

jump_if_true_args(self, h, fp) ==
    IF fp.raised # "none" THEN Raise(self, h, fp.raised)
    ELSE IF Len(fp.args) # 2 THEN Raise(self, h, "ValueError")
    ELSE IF fp.args[1] # 0
    THEN Done([self EXCEPT !.pointer = fp.args[2]], h, 0, fp.acc)
    ELSE Done(self, h, 3, fp.acc)

jump_if_true(self, h, modes) ==
    jump_if_true_args(self, h, follow_pointers(self, modes, 2, FALSE))

jump_if_false_args(self, h, fp) ==
    IF fp.raised # "none" THEN Raise(self, h, fp.raised)
    ELSE IF Len(fp.args) # 2 THEN Raise(self, h, "ValueError")
    ELSE IF fp.args[1] = 0
    THEN Done([self EXCEPT !.pointer = fp.args[2]], h, 0, fp.acc)
    ELSE Done(self, h, 3, fp.acc)

jump_if_false(self, h, modes) ==
    jump_if_false_args(self, h, follow_pointers(self, modes, 2, FALSE))

shift_args(self, h, fp) ==
    IF fp.raised # "none" THEN Raise(self, h, fp.raised)
    ELSE Done([self EXCEPT !.relative_base = @ + fp.args[1]], h, 2, fp.acc)

shift(self, h, modes) ==
    shift_args(self, h, follow_pointers(self, modes, 1, FALSE))

halt(self, h, parameters) ==
    Done([self EXCEPT !.continue_flag = FALSE], h, 1, {})

\* The table as it would be if the value of untouched memory were an opcode.
opcode_dict_with_zero == (0..9) \cup {99}

opcode_dict == (1..9) \cup {99}

operate(self, h, full_opcode) ==
    LET p == parse_full_opcode(full_opcode)
    IN  IF p.raised # "none" THEN Raise(self, h, p.raised)
        ELSE IF p.opcode \notin opcode_dict THEN Raise(self, h, "KeyError")
        ELSE CASE p.opcode = 1 -> add(self, h, p.parameters)
               [] p.opcode = 2 -> multiply(self, h, p.parameters)
               [] p.opcode = 3 -> input(self, h, p.parameters)
               [] p.opcode = 4 -> output(self, h, p.parameters)
               [] p.opcode = 5 -> jump_if_true(self, h, p.parameters)
               [] p.opcode = 6 -> jump_if_false(self, h, p.parameters)
               [] p.opcode = 7 -> less_than(self, h, p.parameters)
               [] p.opcode = 8 -> equals(self, h, p.parameters)
               [] p.opcode = 9 -> shift(self, h, p.parameters)
               [] OTHER -> halt(self, h, p.parameters)

-----------------------------------------------------------------------------
(* run / resume *)

\* self.pointer += toadd: self.pointer is read again after operate returned.
advance(self, r) ==
    IF r.raised # "none" THEN r
    ELSE [r EXCEPT !.self.pointer = @ + r.ret, !.acc = @ \cup {self.pointer}]

\* One iteration of the while loop of run: fetch, operate, advance.
loop_body(self, h) ==
    IF ~InBounds(self.pointer) THEN Raise(self, h, "IndexError")
    ELSE advance(self, operate(self, h, self.code[Wrap(self.pointer)]))

\* The loop condition as it would be if it tested the pause flag only.
loop_condition_ignoring_halt(self) == self.unpaused_flag

loop_condition(self) == self.continue_flag /\ self.unpaused_flag

\* The whole while loop of run, for at most `fuel` iterations: the state in
\* which run returns, or raises.
RECURSIVE run_loop(_, _, _)
run_rest(r, fuel) ==
    IF r.raised # "none" THEN r ELSE run_loop(r.self, r.heap, fuel - 1)
run_loop(self, h, fuel) ==
    IF ~loop_condition(self) \/ fuel = 0 THEN Done(self, h, 0, {})
    ELSE run_rest(loop_body(self, h), fuel)

\* What the caller passes: a scalar, a fresh list, or a list object it
\* already holds (here: the output log of machine `of`).
Scalar(v) == [kind |-> "scalar", val |-> <<v>>, of |-> 0]
Fresh(s) == [kind |-> "list", val |-> s, of |-> 0]
LogOf(m) == [kind |-> "ref", val |-> <<>>, of |-> m]

\* The contents of the list the call hands over, at the time of the call.
Passed(h, a) == IF a.kind = "ref" THEN h[Out(a.of)] ELSE a.val

\* run as it would be if it set the status back to Running itself.
run_sets_running(self, h, m, a) ==
    IF a.kind = "ref"
    THEN Done([self EXCEPT !.input = Out(a.of), !.unpaused_flag = TRUE], h, 0, {})
    ELSE Done([self EXCEPT !.input = Arg(m), !.unpaused_flag = TRUE],
              [h EXCEPT ![Arg(m)] = a.val], 0, {})

\* run as it would be if it added the new values behind those left over.
run_keeps_leftover(self, h, m, a) ==
    IF a.kind = "ref"
    THEN Done([self EXCEPT !.input = Out(a.of)], h, 0, {})
    ELSE Done([self EXCEPT !.input = Arg(m)],
              [h EXCEPT ![Arg(m)] = h[self.input] \o a.val], 0, {})

\* self.input = input_value if isinstance(input_value, list) else [input_value]
\* A list argument is kept by reference; a scalar is wrapped in a new list.
run(self, h, m, a) ==
    IF a.kind = "ref"
    THEN Done([self EXCEPT !.input = Out(a.of)], h, 0, {})
    ELSE Done([self EXCEPT !.input = Arg(m)], [h EXCEPT ![Arg(m)] = a.val], 0, {})

resume(self, h, m, a) ==
    run([self EXCEPT !.unpaused_flag = TRUE], h, m, a)

\* self.code[:len(self.init_code)] = self.init_code; pointer; continue_flag.
\* A program longer than the array cannot be broadcast into the clipped
\* slice: ValueError, before pointer and continue_flag are set.
initialize_code(self, h, program) ==
    IF Len(program) > Cap THEN Raise(self, h, "ValueError")
    ELSE Done([self EXCEPT
                 !.code = [a \in 0..(Cap - 1) |->
                             IF a < Len(program) THEN program[a + 1] ELSE @[a]],
                 !.pointer = 0,
                 !.continue_flag = TRUE], h, 0, {})

\* __init__ with a list as fname.  self.input is still the bound method
\* until the first run; it is modelled as the machine's own, empty, list.
construct(m, program, allow_pausing) ==
    initialize_code([code |-> ZeroCode,
                     pointer |-> 0,
                     relative_base |-> 0,
                     input |-> Arg(m),
                     output |-> Out(m),
                     continue_flag |-> TRUE,
                     unpaused_flag |-> TRUE,
                     allow_pausing |-> allow_pausing],
                    [l \in ListIds |-> <<>>], program).self

\* The status of the spec in terms of the two flags.
Status(self) ==
    IF ~self.continue_flag THEN "Halted"
    ELSE IF ~self.unpaused_flag THEN "Paused"
    ELSE "Running"

-----------------------------------------------------------------------------
(* the programs and call arguments the machines are driven with *)

OutOfRange == Cap + 90

\* A program that fills the memory: a jump to the address -1, and a halt
\* opcode in the last cell.
JumpBack ==
    [k \in 1..Cap |->
       CASE k = 1 -> 1105 [] k = 2 -> 1 [] k = 3 -> -1 [] k = Cap -> 99 [] OTHER -> 0]

Programs ==
    { <<99>>,
      <<1, 0, 0, 0, 99>>,
      <<1101, 4, 5, 6, 99>>,
      <<1102, 3, 4, 9, 1107, 1, 2, 0, 99>>,
      <<1108, 3, 3, 5, 99>>,
      <<104, 7, 104, 8, 104, 9, 99>>,
      <<104, 7, 104, 8, 99>>,
      <<3, 7, 3, 8, 99>>,
      <<104, 7, 3, 7, 4, 7, 99>>,
      <<3, 0, 4, 0, 99>>,
      <<1101, 1, 1, OutOfRange, 99>>,
      <<1102, 1, 1, OutOfRange, 99>>,
      <<1107, 1, 1, OutOfRange, 99>>,
      <<1108, 1, 1, OutOfRange, 99>>,
      <<3, OutOfRange, 99>>,
      <<109, Cap, 21101, 1, 1, 0, 99>>,
      <<1101, 1, 1, -1, 99>>,
      <<109, 3, 21101, 4, 5, 2, 99>>,
      <<1105, 1, 4, 99, 1, 0, 0, 0, 99>>,
      <<1106, 0, 4, 99, 99>>,
      <<1105, 0, 4, 1006, 0, 7, 99>>,
      <<1105, 1, 7>>,
      <<55>>,
      <<1105, 1, 0>>,
      <<11101, 1, 1, 5, 99>>,
      <<103, 5, 99>>,
      <<1301, 1, 1, 5, 99>>,
      <<1004, 3, 99, 42>>,
      <<109, 3, 204, 1, 99>>,
      <<1105, 1, OutOfRange>>,
      JumpBack }

\* What initialize_code is called with on a machine that already exists.
TooLong == [k \in 1..(Cap + 1) |-> 99]
Reloads == { <<99>>, <<4, 3, 99>>, TooLong }

Args(refs) ==
    {Scalar(4), Fresh(<<>>), Fresh(<<5, 6>>)} \cup {LogOf(m) : m \in refs}

-----------------------------------------------------------------------------
(* the state machine *)

\* The opcode the loop is about to dispatch on, -1 when there is none.
Decoded(self) ==
    IF ~InBounds(self.pointer) THEN -1
    ELSE LET p == parse_full_opcode(self.code[Wrap(self.pointer)])
         IN  IF p.raised = "none" /\ p.opcode \in opcode_dict THEN p.opcode ELSE -1

Modes(self) == parse_full_opcode(self.code[Wrap(self.pointer)]).parameters

\* The write address of the instruction at the pointer: `is` tells whether
\* that instruction stores and its operands resolve, `at` is the raw index.
WriteTargetOf(op, num_args, fp) ==
    IF op \notin {1, 2, 3, 7, 8} THEN [is |-> FALSE, at |-> 0]
    ELSE IF fp.raised # "none" \/ Len(fp.args) # num_args
    THEN [is |-> FALSE, at |-> 0]
    ELSE [is |-> TRUE, at |-> fp.args[num_args]]

NumArgs(op) ==
    IF op \in {3, 4, 9} THEN 1 ELSE IF op \in {5, 6} THEN 2 ELSE 3

WriteTarget(self) ==
    IF Decoded(self) = -1 THEN [is |-> FALSE, at |-> 0]
    ELSE WriteTargetOf(Decoded(self), NumArgs(Decoded(self)),
                       follow_pointers(self, Modes(self), NumArgs(Decoded(self)), TRUE))

\* What is recorded about a machine besides its fields: how the current or
\* last call was entered and ended, the last instruction, and counts
\* (`inputs` counts the input opcodes dispatched since construction).
NewObs(program) ==
    [entry |-> "none", entry_status |-> "Running", raised |-> "none",
     op |-> -1, acc |-> {}, steps |-> 0, cycles |-> 0, began |-> FALSE,
     errs |-> 0, produced |-> <<>>, passed |-> <<>>, taken |-> <<>>,
     left |-> <<>>, loads |-> 0, fresh |-> TRUE, program |-> program,
     protocol |-> TRUE, inputs |-> 0]

Constructed(program, allow_pausing) ==
    /\ ic = [m \in Machines |-> construct(m, program[m], allow_pausing[m])]
    /\ heap = [l \in ListIds |-> <<>>]
    /\ pc = [m \in Machines |-> "idle"]
    /\ obs = [m \in Machines |-> NewObs(program[m])]

\* One machine is driven; the other one is constructed and left alone.
Init ==
    \E p \in Programs, pausing \in BOOLEAN :
        Constructed(<<p, <<99>>>>, <<pausing, FALSE>>)

\* The caller is single-threaded: it calls into a machine only when no call
\* is in progress.
Idle == \A m \in Machines : pc[m] = "idle"

Call(m, a, r, name) ==
    /\ ic' = [ic EXCEPT ![m] = r.self]
    /\ heap' = r.heap
    /\ pc' = [pc EXCEPT ![m] = "loop"]
    /\ obs' = [obs EXCEPT ![m].entry = name,
                          ![m].entry_status = Status(ic[m]),
                          ![m].raised = "none",
                          ![m].began = FALSE,
                          ![m].passed = Passed(heap, a),
                          ![m].left = heap[ic[m].input],
                          ![m].taken = <<>>,
                          ![m].fresh = FALSE,
                          ![m].protocol = @ /\ (name = "run") = (obs[m].entry = "none")]

Run(m, a) ==
    /\ Idle
    /\ Call(m, a, run(ic[m], heap, m, a), "run")

Resume(m, a) ==
    /\ Idle
    /\ Call(m, a, resume(ic[m], heap, m, a), "resume")

\* What an executed (or failed) instruction adds to the record of machine m.
Observed(m, self, r, op, target) ==
    LET ok == r.raised = "none"
        log == r.heap[self.output]
    IN  [obs EXCEPT
           ![m].raised = r.raised,
           ![m].op = op,
           ![m].acc = r.acc,
           ![m].steps = @ + 1,
           ![m].cycles = IF obs[m].began THEN @ ELSE @ + 1,
           ![m].began = TRUE,
           ![m].errs = IF ok THEN @ ELSE @ + 1,
           ![m].inputs = IF op = 3 THEN @ + 1 ELSE @,
           ![m].produced = IF ok /\ op = 4 THEN Append(@, log[Len(log)]) ELSE @,
           ![m].passed = IF ok /\ op = 4 /\ self.input = self.output
                         THEN Append(@, log[Len(log)]) ELSE @,
           ![m].taken = IF ok /\ op = 3
                        THEN Append(@, r.self.code[Wrap(target.at)]) ELSE @]

Executed(m, r) ==
    /\ ic' = [ic EXCEPT ![m] = r.self]
    /\ heap' = r.heap
    /\ pc' = [pc EXCEPT ![m] = IF r.raised = "none" THEN "loop" ELSE "idle"]
    /\ obs' = Observed(m, ic[m], r, Decoded(ic[m]), WriteTarget(ic[m]))

\* The loop condition holds: one instruction is executed, or fails and the
\* exception leaves run.
Execute(m) ==
    /\ pc[m] = "loop"
    /\ loop_condition(ic[m])
    /\ obs[m].steps < MaxSteps
    /\ Executed(m, loop_body(ic[m], heap))

\* The loop condition fails: run returns.
Return(m) ==
    /\ pc[m] = "loop"
    /\ ~loop_condition(ic[m])
    /\ pc' = [pc EXCEPT ![m] = "idle"]
    /\ UNCHANGED <<ic, heap, obs>>

MaxLoads == 1

Loaded(m, program, r) ==
    /\ ic' = [ic EXCEPT ![m] = r.self]
    /\ heap' = r.heap
    /\ obs' = [obs EXCEPT ![m].loads = @ + 1,
                          ![m].raised = r.raised,
                          ![m].entry = "initialize_code",
                          ![m].fresh = r.raised = "none",
                          ![m].program = IF r.raised = "none" THEN program ELSE @]
    /\ UNCHANGED pc

InitializeCode(m, program) ==
    /\ Idle
    /\ obs[m].loads < MaxLoads
    /\ Loaded(m, program, initialize_code(ic[m], heap, program))

Next ==
    \/ \E a \in Args({1}) : Run(1, a)
    \/ \E a \in Args({1}) : Resume(1, a)
    \/ Execute(1)
    \/ Return(1)
    \/ \E p \in Reloads : InitializeCode(1, p)

Spec == Init /\ [][Next]_vars

\* Two machines driven by one caller, call after call in any order; a call
\* may be handed the output log of either machine (the output of one
\* computer fed to the next).
PairPrograms ==
    { <<104, 7, 104, 8, 99>>,
      <<3, 0, 4, 0, 99>>,
      <<3, 7, 3, 8, 99>> }

InitPair ==
    \E p1 \in PairPrograms, p2 \in PairPrograms, pausing \in BOOLEAN :
        Constructed(<<p1, p2>>, <<pausing, pausing>>)

\* The caller of the class docstring: ic.run(..) once, then ic.resume(..)
\* while ic.continue_flag.
NextPair ==
    \E m \in Machines :
        \/ \E a \in Args(Machines) : obs[m].entry = "none" /\ Run(m, a)
        \/ \E a \in Args(Machines) :
               obs[m].entry # "none" /\ ic[m].continue_flag /\ Resume(m, a)
        \/ Execute(m)
        \/ Return(m)

SpecPair == InitPair /\ [][NextPair]_vars

-----------------------------------------------------------------------------
(* the claims *)

\* A step of machine m, and one that is part of a run/resume call.
StepOf(m) == pc'[m] # pc[m] \/ obs'[m] # obs[m]
CallStepOf(m) == StepOf(m) /\ obs'[m].loads = obs[m].loads
IsPrefix(s, t) == Len(s) <= Len(t) /\ s = SubSeq(t, 1, Len(s))
Log(m) == heap[ic[m].output]

\* C1: with allow_pausing, on a machine driven by run and then resume whose
\* instructions all succeeded, whenever a call has returned Paused the number
\* of calls equals the number of values produced (the call that executes
\* the halt opcode is one more), and the output log holds exactly the
\* values produced so far, in order.
C1_OnePausePerOutput ==
    \A m \in Machines :
        ( /\ ic[m].allow_pausing
          /\ pc[m] = "idle"
          /\ obs[m].protocol
          /\ obs[m].errs = 0
          /\ obs[m].loads = 0 )
        => /\ Log(m) = obs[m].produced
           /\ Status(ic[m]) = "Paused" => obs[m].cycles = Len(obs[m].produced)
           /\ Status(ic[m]) = "Halted" => obs[m].cycles = Len(obs[m].produced) + 1


\* What the caller can see of a call's outcome on machine m.
Visible(r, m) ==
    <<r.self.code, r.self.pointer, r.self.relative_base, r.heap[Out(m)],
      Status(r.self), r.raised>>
Outcome(e, m) == Visible(run_loop(e.self, e.heap, MaxSteps), m)

\* C2 (as claimed): on a Paused machine run(input) and resume(input) reach
\* the same memory, pointer, relative base, output log and status.
C2_RunEqualsResumeWhenPaused ==
    \A m \in Machines :
        (Idle /\ Status(ic[m]) = "Paused")
        => \A a \in Args({m}) :
               Outcome(run(ic[m], heap, m, a), m) = Outcome(resume(ic[m], heap, m, a), m)

\* C2 (amended): run and resume do the same on a machine that is not
\* Paused.  On a Paused machine run only replaces the pending input: no
\* instruction is executed and memory, pointer, relative base, output log
\* and the Paused status stay as they are, while resume sets the status to
\* Running before it enters the loop.
C2_RunIsNoOpWhenPaused ==
    [][\A m \in Machines :
         /\ (Idle /\ Status(ic[m]) # "Paused")
            => \A a \in Args({m}) : run(ic[m], heap, m, a) = resume(ic[m], heap, m, a)
         /\ (Idle /\ Status(ic[m]) = "Paused" /\ StepOf(m) /\ obs'[m].entry = "run")
            => /\ ic'[m] = [ic[m] EXCEPT !.input = ic'[m].input]
               /\ heap'[Out(m)] = heap[Out(m)]
         /\ (Idle /\ Status(ic[m]) = "Paused" /\ StepOf(m) /\ obs'[m].entry = "resume")
            => Status(ic'[m]) = "Running"
         /\ (pc[m] = "loop" /\ obs[m].entry = "run" /\ obs[m].entry_status = "Paused"
               /\ StepOf(m))
            => /\ ic'[m] = ic[m]
               /\ heap' = heap
               /\ obs'[m] = obs[m]
               /\ pc'[m] = "idle"
      ]_vars

\* A run call on a Paused machine has returned and the machine is Paused.
C2_Witness ==
    \E m \in Machines :
        /\ pc[m] = "idle"
        /\ obs[m].entry = "run"
        /\ obs[m].entry_status = "Paused"
        /\ Status(ic[m]) = "Paused"
        /\ Log(m) # <<>>

\* C3: once Halted, no step of a run or resume call executes an instruction
\* or changes memory, pointer, relative base, output log or the status.
C3_HaltedIsAbsorbing ==
    [][\A m \in Machines :
         (Status(ic[m]) = "Halted" /\ CallStepOf(m))
         => /\ ic'[m].code = ic[m].code
            /\ ic'[m].pointer = ic[m].pointer
            /\ ic'[m].relative_base = ic[m].relative_base
            /\ heap'[Out(m)] = heap[Out(m)]
            /\ Status(ic'[m]) = "Halted"
            /\ obs'[m].steps = obs[m].steps
      ]_vars

\* A resume call with input, made on a Halted machine, has returned.
C3_Witness ==
    \E m \in Machines :
        /\ pc[m] = "idle"
        /\ obs[m].entry = "resume"
        /\ obs[m].entry_status = "Halted"
        /\ obs[m].passed # <<>>
        /\ Status(ic[m]) = "Halted"
        /\ obs[m].op = 99

\* C4: every index into the memory used by an instruction that succeeded
\* lies in 0..Cap-1.
C4_AccessInRange ==
    \A m \in Machines : \A i \in obs[m].acc : 0 <= i /\ i < Cap

\* C5: an instruction that fails leaves memory, pointer, relative base,
\* output log and pending input as they were.
C5_FailureAtomic ==
    [][\A m \in Machines :
         (pc[m] = "loop" /\ StepOf(m) /\ obs'[m].raised # "none")
         => /\ ic'[m] = ic[m]
            /\ heap' = heap
      ]_vars

\* C6: add, multiply, input, less-than or equals with a write address at or
\* above the capacity fails, and no memory cell changes.
C6_HighWriteFails ==
    [][\A m \in Machines :
         ( /\ pc[m] = "loop"
           /\ loop_condition(ic[m])
           /\ StepOf(m)
           /\ WriteTarget(ic[m]).is
           /\ WriteTarget(ic[m]).at >= Cap )
         => /\ obs'[m].raised # "none"
            /\ ic'[m].code = ic[m].code
      ]_vars

\* An instruction that stores has just failed on a write address >= Cap.
C6_Witness ==
    \E m \in Machines :
        /\ pc[m] = "idle"
        /\ obs[m].raised = "IndexError"
        /\ obs[m].op \in {1, 2, 3, 7, 8}
        /\ WriteTarget(ic[m]).is
        /\ WriteTarget(ic[m]).at >= Cap

TwoInputs == <<3, 7, 3, 8, 99>>

\* C7: with pausing disabled an input opcode that finds the queue empty
\* fails, stores nothing and does not move the pointer; the program with two
\* input opcodes, given one value by its first call, stores it and fails on
\* the second.
C7_EmptyInputFails ==
    [][\A m \in Machines :
         /\ ( /\ ~ic[m].allow_pausing
              /\ pc[m] = "loop"
              /\ loop_condition(ic[m])
              /\ StepOf(m)
              /\ Decoded(ic[m]) = 3
              /\ heap[ic[m].input] = <<>> )
            => /\ obs'[m].raised # "none"
               /\ ic'[m].code = ic[m].code
               /\ ic'[m].pointer = ic[m].pointer
         /\ ( /\ ~ic[m].allow_pausing
              /\ obs[m].program = TwoInputs
              /\ obs[m].entry = "run"
              /\ obs[m].protocol
              /\ obs[m].passed = <<4>>
              /\ pc[m] = "loop"
              /\ pc'[m] = "idle" )
            => /\ obs'[m].raised = "IndexError"
               /\ ic'[m].code[7] = 4
               /\ ic'[m].code[8] = 0
               /\ ic'[m].pointer = 2
      ]_vars

\* The second input opcode of TwoInputs has failed on the empty queue.
C7_Witness ==
    \E m \in Machines :
        /\ ~ic[m].allow_pausing
        /\ obs[m].program = TwoInputs
        /\ pc[m] = "idle"
        /\ obs[m].raised = "IndexError"
        /\ obs[m].op = 3
        /\ obs[m].taken = <<4>>
        /\ heap[ic[m].input] = <<>>
        /\ ic[m].code[7] = 4
        /\ ic[m].pointer = 2

C9_AppendOnly ==
    [][\A m \in Machines : IsPrefix(heap[Out(m)], heap'[Out(m)])]_vars

Placed(program) ==
    [a \in 0..(Cap - 1) |-> IF a < Len(program) THEN program[a + 1] ELSE 0]

\* C10: right after a load the memory is the program followed by zeros,
\* pointer and relative base are 0, the status is Running and the output
\* log is empty; no program longer than the capacity is ever loaded.
C10_LoadResets ==
    \A m \in Machines :
        /\ obs[m].fresh
           => /\ ic[m].code = Placed(obs[m].program)
              /\ ic[m].pointer = 0
              /\ ic[m].relative_base = 0
              /\ Status(ic[m]) = "Running"
              /\ Log(m) = <<>>
        /\ Len(obs[m].program) <= Cap

\* The cell the loop fetches next, and its k-th decimal digit above the low
\* two: the mode the instruction's k-th parameter is written with.
Cell(self) == self.code[Wrap(self.pointer)]
ModeDigit(cell, k) ==
    (cell \div (CASE k = 1 -> 100 [] k = 2 -> 1000 [] OTHER -> 10000)) % 10

\* The opcodes of the instruction set: 1..9 and 99.
Known == (1..9) \cup {99}

\* Machine m is about to fetch a cell whose low two digits are an opcode.
Fetching(m) ==
    /\ pc[m] = "loop"
    /\ loop_condition(ic[m])
    /\ InBounds(ic[m].pointer)
    /\ Cell(ic[m]) >= 0
    /\ Cell(ic[m]) % 100 \in Known

\* C11: an instruction whose write-target parameter is written with mode 1,
\* or one of whose parameters is written with a mode digit other than 0, 1
\* or 2, fails and changes no memory cell.
C11_InvalidModeFails ==
    [][\A m \in Machines :
         ( /\ Fetching(m)
           /\ StepOf(m)
           /\ \/ Cell(ic[m]) % 100 \in {1, 2, 7, 8} /\ ModeDigit(Cell(ic[m]), 3) = 1
              \/ Cell(ic[m]) % 100 = 3 /\ ModeDigit(Cell(ic[m]), 1) = 1
              \/ /\ Cell(ic[m]) % 100 # 99
                 /\ \E k \in 1..NumArgs(Cell(ic[m]) % 100) :
                        ModeDigit(Cell(ic[m]), k) \notin {0, 1, 2} )
         => /\ obs'[m].raised # "none"
            /\ ic'[m].code = ic[m].code
      ]_vars

\* C12: when the cell at the pointer has low two digits that are no opcode
\* (the 0 of untouched memory included), the step fails, the call ends with
\* the error, and memory, pointer, relative base and output log are as
\* they were.
C12_UnknownOpcodeFails ==
    [][\A m \in Machines :
         ( /\ pc[m] = "loop"
           /\ loop_condition(ic[m])
           /\ StepOf(m)
           /\ InBounds(ic[m].pointer)
           /\ Cell(ic[m]) >= 0
           /\ Cell(ic[m]) % 100 \notin Known )
         => /\ obs'[m].raised # "none"
            /\ pc'[m] = "idle"
            /\ ic'[m].code = ic[m].code
            /\ ic'[m].pointer = ic[m].pointer
            /\ ic'[m].relative_base = ic[m].relative_base
            /\ heap'[Out(m)] = heap[Out(m)]
      ]_vars

\* A jump has led into untouched memory, and the call has failed on the 0
\* found there.
C12_Witness ==
    \E m \in Machines :
        /\ pc[m] = "idle"
        /\ obs[m].raised = "KeyError"
        /\ obs[m].steps >= 2
        /\ ic[m].pointer > 0
        /\ InBounds(ic[m].pointer)
        /\ Cell(ic[m]) = 0

\* C13: a step of a call on one machine leaves the other machine's memory,
\* pointer, relative base, status, pending input and output log as they
\* were.
C13_Independent ==
    [][\A m \in Machines : \A n \in Machines \ {m} :
         StepOf(m)
         => /\ ic'[n] = ic[n]
            /\ heap'[ic[n].input] = heap[ic[n].input]
            /\ heap'[Out(n)] = heap[Out(n)]
      ]_vars

\* C14: with allow_pausing, an input opcode that finds no pending value does
\* not fail: the call returns with continue_flag still true and the pointer
\* still at the input instruction; and an input opcode that is the first
\* instruction of a resume call that brought a value stores that value.
C14_PausesForInput ==
    [][\A m \in Machines :
         /\ ( /\ ic[m].allow_pausing
              /\ Fetching(m)
              /\ StepOf(m)
              /\ Cell(ic[m]) % 100 = 3
              /\ heap[ic[m].input] = <<>> )
            => /\ obs'[m].raised = "none"
               /\ pc'[m] = "idle"
               /\ ic'[m].continue_flag
               /\ ic'[m].pointer = ic[m].pointer
               /\ ic'[m].code = ic[m].code
         /\ ( /\ ic[m].allow_pausing
              /\ Fetching(m)
              /\ StepOf(m)
              /\ Cell(ic[m]) = 3
              /\ obs[m].entry = "resume"
              /\ ~obs[m].began
              /\ heap[ic[m].input] # <<>>
              /\ WriteTarget(ic[m]).at \in 0..(Cap - 1) )
            => /\ obs'[m].raised = "none"
               /\ ic'[m].code = [ic[m].code EXCEPT ![WriteTarget(ic[m]).at] =
                                   Head(heap[ic[m].input])]
               /\ ic'[m].pointer = ic[m].pointer + 2
      ]_vars

\* Operand resolution as the instruction set defines it.  The k-th
\* parameter's literal is the cell k places after the opcode; a read
\* parameter is memory[literal], the literal, or memory[base + literal] in
\* modes 0, 1, 2; a write target is literal or base + literal in modes 0, 2.
Literal(self, k) == self.code[self.pointer + k]
AddressOf(self, k) ==
    IF ModeDigit(Cell(self), k) = 2
    THEN self.relative_base + Literal(self, k)
    ELSE Literal(self, k)
Resolved(self, k) ==
    IF ModeDigit(Cell(self), k) = 1
    THEN Literal(self, k)
    ELSE self.code[AddressOf(self, k)]
ReadParams(op) ==
    CASE op \in {1, 2, 7, 8, 5, 6} -> {1, 2}
      [] op \in {4, 9} -> {1}
      [] OTHER -> {}
Stores(op) == op \in {1, 2, 3, 7, 8}

\* The instruction at the pointer is complete and written with modes the
\* instruction set allows.
WellFormed(self) ==
    /\ self.pointer >= 0
    /\ self.pointer + NumArgs(Cell(self) % 100) < Cap
    /\ \A k \in ReadParams(Cell(self) % 100) : ModeDigit(Cell(self), k) \in {0, 1, 2}
    /\ Stores(Cell(self) % 100)
       => ModeDigit(Cell(self), NumArgs(Cell(self) % 100)) \in {0, 2}

\* Every address the instruction resolves is a memory cell.
AddressesInMemory(self) ==
    /\ \A k \in ReadParams(Cell(self) % 100) :
           ModeDigit(Cell(self), k) # 1 => AddressOf(self, k) \in 0..(Cap - 1)
    /\ Stores(Cell(self) % 100)
       => AddressOf(self, NumArgs(Cell(self) % 100)) \in 0..(Cap - 1)

\* What the instruction at the pointer of machine m has to do, given how
\* its operands resolve.
ResolvedEffect(m, op) ==
    CASE op \in {1, 2, 7, 8} ->
           ic'[m].code = [ic[m].code EXCEPT ![AddressOf(ic[m], 3)] =
                            stored_value(op, Resolved(ic[m], 1), Resolved(ic[m], 2))]
      [] op = 3 ->
           ic'[m].code = [ic[m].code EXCEPT ![AddressOf(ic[m], 1)] =
                            Head(heap[ic[m].input])]
      [] op = 4 ->
           /\ heap'[Out(m)] = Append(heap[Out(m)], Resolved(ic[m], 1))
           /\ ic'[m].code = ic[m].code
      [] op = 9 ->
           /\ ic'[m].relative_base = ic[m].relative_base + Resolved(ic[m], 1)
           /\ ic'[m].code = ic[m].code
      [] op = 5 ->
           /\ ic'[m].pointer = IF Resolved(ic[m], 1) # 0
                               THEN Resolved(ic[m], 2) ELSE ic[m].pointer + 3
           /\ ic'[m].code = ic[m].code
      [] op = 6 ->
           /\ ic'[m].pointer = IF Resolved(ic[m], 1) = 0
                               THEN Resolved(ic[m], 2) ELSE ic[m].pointer + 3
           /\ ic'[m].code = ic[m].code
      [] OTHER -> ic'[m].code = ic[m].code

\* C15: an executed instruction reads memory[v], v or memory[base + v]
\* for a parameter with literal v in mode 0, 1 or 2, and writes exactly the
\* cell v or base + v of its write target in mode 0 or 2.
C15_OperandResolution ==
    [][\A m \in Machines :
         ( /\ Fetching(m)
           /\ StepOf(m)
           /\ WellFormed(ic[m])
           /\ obs'[m].raised = "none" )
         => /\ AddressesInMemory(ic[m])
            /\ AddressesInMemory(ic[m]) => ResolvedEffect(m, Cell(ic[m]) % 100)
      ]_vars

\* The test and the target of the jump at the pointer, as resolved.
JumpArgs(self) == follow_pointers(self, Modes(self), 2, FALSE).args
JumpTaken(self) ==
    \/ Cell(self) % 100 = 5 /\ JumpArgs(self)[1] # 0
    \/ Cell(self) % 100 = 6 /\ JumpArgs(self)[1] = 0
Width(op) ==
    CASE op \in {1, 2, 7, 8} -> 4
      [] op \in {3, 4, 9} -> 2
      [] op \in {5, 6} -> 3
      [] OTHER -> 1

\* C16: an executed instruction moves the pointer forward by its width (4
\* for add, multiply, less-than, equals; 2 for input, output, adjust-base;
\* 1 for halt; 3 for a jump not taken), and a taken jump leaves it equal to
\* the resolved target.
C16_PointerAdvance ==
    [][\A m \in Machines :
         (Fetching(m) /\ StepOf(m) /\ obs'[m].raised = "none")
         => IF Cell(ic[m]) % 100 \in {5, 6} /\ JumpTaken(ic[m])
            THEN ic'[m].pointer = JumpArgs(ic[m])[2]
            ELSE ic'[m].pointer = ic[m].pointer + Width(Cell(ic[m]) % 100)
      ]_vars

\* The first instruction was a jump that was taken, to address 4.
C16_Witness ==
    \E m \in Machines :
        /\ obs[m].steps = 1
        /\ obs[m].op \in {5, 6}
        /\ obs[m].raised = "none"
        /\ obs[m].program[3] = 4
        /\ obs[m].loads = 0
        /\ ic[m].pointer = 4

\* C17: for a non-negative cell the opcode decoded is the cell modulo 100,
\* and the mode applied to the k-th parameter is the k-th decimal digit
\* above the low two (0 when the cell has no such digit), whatever the
\* number of mode digits the cell carries.
C17_Decoding ==
    \A m \in Machines :
        Fetching(m)
        => /\ parse_full_opcode(Cell(ic[m])).opcode = Cell(ic[m]) % 100
           /\ Cell(ic[m]) % 100 # 99
              => \A k \in 1..NumArgs(Cell(ic[m]) % 100) :
                     applied_mode(Cell(ic[m]), NumArgs(Cell(ic[m]) % 100), k)
                         = ModeDigit(Cell(ic[m]), k)

\* C18: whenever a machine is not Halted, its pointer is an address of the
\* memory, 0 <= pointer < Cap: no instruction leaves it outside.
C18_PointerInMemory ==
    \A m \in Machines :
        Status(ic[m]) # "Halted" => ic[m].pointer \in 0..(Cap - 1)

\* The number of loop iterations of one run call, up to `fuel`.
RECURSIVE RunLength(_, _, _)
RunLengthRest(r, fuel) ==
    IF r.raised # "none" THEN 1 ELSE 1 + RunLength(r.self, r.heap, fuel - 1)
RunLength(self, h, fuel) ==
    IF ~loop_condition(self) \/ fuel = 0 THEN 0
    ELSE RunLengthRest(loop_body(self, h), fuel)

\* The same program on a machine constructed with pausing disabled, and the
\* state in which its one run call returns.
Unpaused(m) == construct(m, obs[m].program, FALSE)
NoLists == [l \in ListIds |-> <<>>]
OneRun(m) == run_loop(Unpaused(m), NoLists, MaxSteps)

\* C19: a machine with allow_pausing that was driven by run and then resume
\* calls, has dispatched no input opcode and is Halted, has the memory,
\* pointer, relative base and output log that one run call leaves on the
\* same program with pausing disabled, after the same number of
\* instructions.
C19_PausingTransparent ==
    \A m \in Machines :
        ( /\ ic[m].allow_pausing
          /\ pc[m] = "idle"
          /\ obs[m].protocol
          /\ obs[m].loads = 0
          /\ obs[m].inputs = 0
          /\ Status(ic[m]) = "Halted" )
        => /\ OneRun(m).raised = "none"
           /\ Status(OneRun(m).self) = "Halted"
           /\ OneRun(m).self.code = ic[m].code
           /\ OneRun(m).self.pointer = ic[m].pointer
           /\ OneRun(m).self.relative_base = ic[m].relative_base
           /\ OneRun(m).heap[Out(m)] = Log(m)
           /\ RunLength(Unpaused(m), NoLists, MaxSteps) = obs[m].steps

\* The program with three outputs has been resumed across three pauses and
\* has halted.
C19_Witness ==
    \E m \in Machines :
        /\ ic[m].allow_pausing
        /\ pc[m] = "idle"
        /\ obs[m].protocol
        /\ obs[m].loads = 0
        /\ obs[m].inputs = 0
        /\ Status(ic[m]) = "Halted"
        /\ obs[m].cycles = 4
        /\ Log(m) = <<7, 8, 9>>

====
